---- MODULE Spec2Model ----
(***************************************************************************)
(* Model of the local search-history store of static/js/app.js:            *)
(* getHistory / setHistory / upsertCity / deleteCity / clearHistoryAll /   *)
(* togglePin / renameCity, together with normalizeCity and cityRegex that  *)
(* renameCity receives.                                                    *)
(*                                                                         *)
(* The store is checked under four specifications over the same state:     *)
(* Spec (the operations on a history the program has written), LoadSpec    *)
(* (any content found under the key), AnySpec (any name) and FieldSpec     *)
(* (the city field alone).  SubmitSpec is the submit handler of the form   *)
(* with fetchWithTimeout, inFlight and the responses of the backend.       *)
(*                                                                         *)
(* Strings are sequences of one-character strings, so that trim,           *)
(* toLowerCase, whitespace collapsing and the regular expressions are      *)
(* computed character by character.  Array indices are 1-based; findIndex  *)
(* returns 0 where JavaScript returns -1.                                  *)
(***************************************************************************)
EXTENDS Integers, Sequences, FiniteSets, TLC

VARIABLES storage, now, call, loaded, ret, alert, wrote, error, city,
          subs, inFlight, aborted, requests, submitBtn, display

\* the history store and the last call of one of its operations
storeVars == <<storage, now, call, loaded, ret, alert, wrote, error>>

\* the submit handler, its requests and what it shows
submitVars == <<subs, inFlight, aborted, requests, submitBtn, display>>

\* the rest of the page
pageVars == <<city, submitVars>>

vars == <<storeVars, pageVars>>

(***************************************************************************)
(* Bounds of the model and constants of the program.                       *)
(***************************************************************************)
\* number of milliseconds by which the clock advances in a run
MaxTicks == 1

\* length of the longest text typed into the city field
MaxTyped == 5

\* number of times the city field is validated
MaxPasses == 2

\* length of the longest array found under LS_KEY when the page is loaded
MaxItems == 2

\* number of times the form is submitted
MaxSubs == 2

\* arr.slice(0, 8)
Capacity == 8

\* nn.length > 80, and {1,80} in cityRegex
MaxNameLen == 80

Min(a, b) == IF a < b THEN a ELSE b

(***************************************************************************)
(* Characters and strings.                                                 *)
(***************************************************************************)
\* <<lower, upper>> for the letters that occur in upper case in the model
CasePairs == {<<"a", "A">>, <<"h", "H">>, <<"x", "X">>, <<"m", "M">>}

LowerLetters == {"a", "b", "c", "d", "e", "f", "g", "h", "x", "m", "z"}

UpperLetters == {p[2] : p \in CasePairs}

\* [A-Za-z]
IsAsciiLetter(c) == c \in LowerLetters \cup UpperLetters

\* \s
IsSpace(c) == c = " "

Digits == {"0", "1", "2", "3", "4", "5", "6", "7", "8", "9"}

\* [\p{L}\p{M}0-9\s,'\.\-]
InCityClass(c) ==
  IsAsciiLetter(c) \/ c \in Digits \/ IsSpace(c) \/ c \in {",", "'", ".", "-"}

toLowerChar(c) ==
  IF c \in UpperLetters THEN (CHOOSE p \in CasePairs : p[2] = c)[1] ELSE c

toUpperChar(c) ==
  IF \E p \in CasePairs : p[1] = c THEN (CHOOSE p \in CasePairs : p[1] = c)[2] ELSE c

toLowerCase(s) == [i \in 1..Len(s) |-> toLowerChar(s[i])]

\* String.prototype.trim
RECURSIVE trim(_)
trim(s) ==
  IF s = <<>> THEN <<>>
  ELSE IF IsSpace(Head(s)) THEN trim(Tail(s))
  ELSE IF IsSpace(s[Len(s)]) THEN trim(SubSeq(s, 1, Len(s) - 1))
  ELSE s

\* variant: replace(/\s\s/, ' '), the first two spaces in a row become one
collapseFirstPair(s) ==
  LET again == {i \in 2..Len(s) : IsSpace(s[i]) /\ IsSpace(s[i - 1])}
  IN  IF again = {} THEN s
      ELSE LET i == CHOOSE x \in again : \A y \in again : x <= y
           IN  SubSeq(s, 1, i - 1) \o SubSeq(s, i + 1, Len(s))

\* replace(/\s+/g, ' '): while a space follows a space, the first such is removed
RECURSIVE collapseSpaces(_)
collapseSpaces(s) ==
  LET again == {i \in 2..Len(s) : IsSpace(s[i]) /\ IsSpace(s[i - 1])}
  IN  IF again = {} THEN s
      ELSE LET i == CHOOSE x \in again : \A y \in again : x <= y
           IN  collapseSpaces(SubSeq(s, 1, i - 1) \o SubSeq(s, i + 1, Len(s)))

AllSpaces(s) == \A i \in 1..Len(s) : IsSpace(s[i])

\* positions k where /,\s*([A-Za-z]{2})$/ matches starting at k
CountrySuffixAt(v) ==
  {k \in 1..Len(v) :
     /\ v[k] = ","
     /\ Len(v) - k >= 2
     /\ IsAsciiLetter(v[Len(v) - 1])
     /\ IsAsciiLetter(v[Len(v)])
     /\ AllSpaces(SubSeq(v, k + 1, Len(v) - 2))}

normalizeCity(value) ==
  LET v == collapseSpaces(trim(value))
      ks == CountrySuffixAt(v)
  IN  IF ks = {} THEN v
      ELSE LET k == CHOOSE x \in ks : \A y \in ks : x <= y
           IN  SubSeq(v, 1, k - 1)
                 \o <<",", " ", toUpperChar(v[Len(v) - 1]), toUpperChar(v[Len(v)])>>

\* /^[\p{L}\p{M}0-9\s,'\.\-]{1,80}(,\s?[A-Za-z]{2})?$/u .test(s)
cityRegexTest(s) ==
  \E k \in 1..Min(MaxNameLen, Len(s)) :
     /\ \A i \in 1..k : InCityClass(s[i])
     /\ LET rest == SubSeq(s, k + 1, Len(s))
        IN  \/ rest = <<>>
            \/ /\ Len(rest) \in {3, 4}
               /\ rest[1] = ","
               /\ Len(rest) = 4 => IsSpace(rest[2])
               /\ IsAsciiLetter(rest[Len(rest) - 1])
               /\ IsAsciiLetter(rest[Len(rest)])

(***************************************************************************)
(* Arrays of history entries {name, pinned, ts}.                           *)
(***************************************************************************)
Num(b) == IF b THEN 1 ELSE 0

\* variant: the entries are compared by their times only
compareByTs(a, b) == b.ts - a.ts

\* (a,b) => (b.pinned - a.pinned) || (b.ts - a.ts)
compare(a, b) ==
  IF Num(b.pinned) - Num(a.pinned) # 0
  THEN Num(b.pinned) - Num(a.pinned)
  ELSE b.ts - a.ts

\* x goes behind every element of the sorted prefix that does not have to follow it
insertSorted(s, x) ==
  LET m == Cardinality({i \in 1..Len(s) : compare(s[i], x) <= 0})
  IN  SubSeq(s, 1, m) \o <<x>> \o SubSeq(s, m + 1, Len(s))

RECURSIVE sortInto(_, _)
sortInto(acc, rest) ==
  IF rest = <<>> THEN acc ELSE sortInto(insertSorted(acc, Head(rest)), Tail(rest))

\* Array.prototype.sort with the comparator above (stable)
sort(arr) == sortInto(<<>>, arr)

\* variant: the names are compared as they are, without toLowerCase()
findIndexExact(arr, name) ==
  LET hits == {i \in 1..Len(arr) : arr[i].name = name}
  IN  IF hits = {} THEN 0 ELSE CHOOSE i \in hits : \A j \in hits : i <= j

\* arr.findIndex(x => x.name.toLowerCase() === name.toLowerCase())
findIndex(arr, name) ==
  LET hits == {i \in 1..Len(arr) : toLowerCase(arr[i].name) = toLowerCase(name)}
  IN  IF hits = {} THEN 0 ELSE CHOOSE i \in hits : \A j \in hits : i <= j

\* arr.splice(i, 1)
splice(arr, i) == SubSeq(arr, 1, i - 1) \o SubSeq(arr, i + 1, Len(arr))

\* variant: the limit is off by one
sliceOneMore(arr, n) == SubSeq(arr, 1, Min(n + 1, Len(arr)))

\* arr.slice(0, n)
slice(arr, n) == SubSeq(arr, 1, Min(n, Len(arr)))

(***************************************************************************)
(* localStorage[LS_KEY].  The stored text is modelled by its JSON value:   *)
(* [kind |-> "null"] is the missing key, [kind |-> "array"] an array whose *)
(* elements are objects {name, pinned, ts} or (legacy data) strings.       *)
(* A text that JSON.parse rejects is [kind |-> "unparseable"], one that    *)
(* parses to something else than an array [kind |-> "other"].  An element  *)
(* of an array has a type, "string", "number", "null" or "object", and an  *)
(* object has the fields it was written with.                              *)
(***************************************************************************)
NullBlob == [kind |-> "null"]

JsonTypes == {"string", "number", "null", "object"}

\* A value that is not a string stands, where a string is expected, as the
\* one-element sequence of its type: no string of the model, whose elements
\* are single characters.
NotString(o) == <<o.type>>

\* typeof v === 'string'
IsString(v) == \A i \in 1..Len(v) : v[i] \notin JsonTypes

\* o?.f || d, for a field f that holds a value of the right type when present
get(o, f, d) == IF f \in DOMAIN o THEN o[f] ELSE d

\* JSON.stringify(arr) for an array of entries
stringify(arr) ==
  [kind |-> "array",
   items |-> [i \in 1..Len(arr) |->
                [type |-> "object", name |-> arr[i].name,
                 pinned |-> arr[i].pinned, ts |-> arr[i].ts]]]

\* .filter(o => o.name)
RECURSIVE dropUnnamed(_)
dropUnnamed(arr) ==
  IF arr = <<>> THEN <<>>
  ELSE IF Head(arr).name # <<>> THEN <<Head(arr)>> \o dropUnnamed(Tail(arr))
  ELSE dropUnnamed(Tail(arr))

\* variant: the filter compares the names as they are
RECURSIVE dropNamedExact(_, _)
dropNamedExact(arr, name) ==
  IF arr = <<>> THEN <<>>
  ELSE IF Head(arr).name # name
       THEN <<Head(arr)>> \o dropNamedExact(Tail(arr), name)
       ELSE dropNamedExact(Tail(arr), name)

\* .filter(x => x.name.toLowerCase() !== name.toLowerCase())
RECURSIVE dropNamed(_, _)
dropNamed(arr, name) ==
  IF arr = <<>> THEN <<>>
  ELSE IF toLowerCase(Head(arr).name) # toLowerCase(name)
       THEN <<Head(arr)>> \o dropNamed(Tail(arr), name)
       ELSE dropNamed(Tail(arr), name)

\* variant: the entries made of legacy names all get the time of the call
getHistorySameTs(blob, t) ==
  LET arr == IF blob.kind = "array" THEN blob.items ELSE <<>>
  IN  IF Len(arr) > 0 /\ arr[1].type = "string"
      THEN [i \in 1..Len(arr) |->
              [name |-> IF arr[i].type = "string" THEN arr[i].s ELSE NotString(arr[i]),
               pinned |-> FALSE, ts |-> t]]
      ELSE LET mapped == [i \in 1..Len(arr) |->
                            [name |-> trim(get(arr[i], "name", <<>>)),
                             pinned |-> get(arr[i], "pinned", FALSE),
                             ts |-> get(arr[i], "ts", t)]]
           IN  dropUnnamed(mapped)

\* getHistory(), with t the value of Date.now().  A field of an object is
\* either missing or of the type stringify writes it with: name a string,
\* pinned a boolean, ts a finite number, which String(), Boolean() and
\* Number.isFinite() keep.  An element that is no object has no field.
getHistory(blob, t) ==
  LET arr == IF blob.kind = "array" THEN blob.items ELSE <<>>
  IN  IF Len(arr) > 0 /\ arr[1].type = "string"
      THEN [i \in 1..Len(arr) |->
              [name |-> IF arr[i].type = "string" THEN arr[i].s ELSE NotString(arr[i]),
               pinned |-> FALSE, ts |-> t - (i - 1)]]
      ELSE LET mapped == [i \in 1..Len(arr) |->
                            [name |-> trim(get(arr[i], "name", <<>>)),
                             pinned |-> get(arr[i], "pinned", FALSE),
                             ts |-> get(arr[i], "ts", t)]]
           IN  dropUnnamed(mapped)

\* setHistory(arr)
setHistory(arr) == stringify(arr)

(***************************************************************************)
(* The store operations.  Each returns the new content of localStorage,    *)
(* whether it called setHistory, the array it returns and the alert it     *)
(* shows; t is Date.now().                                                 *)
(***************************************************************************)
\* variant: a found entry is replaced by a fresh one
touchFresh(arr, i, normalized, t) ==
  IF i > 0
  THEN [arr EXCEPT ![i] = [name |-> normalized, pinned |-> FALSE, ts |-> t]]
  ELSE <<[name |-> normalized, pinned |-> FALSE, ts |-> t]>> \o arr

\* if (i >= 0) { arr[i].name = ...; arr[i].ts = ts } else { arr.unshift(...) }
touch(arr, i, normalized, t) ==
  IF i > 0
  THEN [arr EXCEPT ![i].name = normalized, ![i].ts = t]
  ELSE <<[name |-> normalized, pinned |-> FALSE, ts |-> t]>> \o arr

\* variant: the array is truncated before it is sorted
upsertCityCutFirst(name, blob, t) ==
  LET normalized == trim(name)
      arr == getHistory(blob, t)
      i == findIndex(arr, normalized)
      kept == sort(slice(touch(arr, i, normalized, t), Capacity))
  IN  [storage |-> setHistory(kept), ret |-> kept, alert |-> "none", wrote |-> TRUE]

upsertCity(name, blob, t) ==
  LET normalized == trim(name)
      arr == getHistory(blob, t)
      i == findIndex(arr, normalized)
      kept == slice(sort(touch(arr, i, normalized, t)), Capacity)
  IN  [storage |-> setHistory(kept), ret |-> kept, alert |-> "none", wrote |-> TRUE]

deleteCity(name, blob, t) ==
  LET arr == dropNamed(getHistory(blob, t), name)
  IN  [storage |-> setHistory(arr), ret |-> arr, alert |-> "none", wrote |-> TRUE]

clearHistoryAll == [storage |-> setHistory(<<>>), ret |-> <<>>, alert |-> "none", wrote |-> TRUE]

\* variant: the flag is flipped and the time of the entry is left as it was
flipKeepTs(arr, i, t) == [arr EXCEPT ![i].pinned = ~arr[i].pinned]

\* arr[i].pinned = !arr[i].pinned; arr[i].ts = Date.now()
flip(arr, i, t) == [arr EXCEPT ![i].pinned = ~arr[i].pinned, ![i].ts = t]

\* variant: the array is stored without being sorted again
togglePinNoSort(name, blob, t) ==
  LET arr == getHistory(blob, t)
      i == findIndex(arr, name)
  IN  IF i > 0
      THEN LET flipped == flip(arr, i, t)
           IN  [storage |-> setHistory(flipped), ret |-> flipped, alert |-> "none", wrote |-> TRUE]
      ELSE [storage |-> blob, ret |-> arr, alert |-> "none", wrote |-> FALSE]

togglePin(name, blob, t) ==
  LET arr == getHistory(blob, t)
      i == findIndex(arr, name)
  IN  IF i > 0
      THEN LET flipped == sort(flip(arr, i, t))
           IN  [storage |-> setHistory(flipped), ret |-> flipped, alert |-> "none", wrote |-> TRUE]
      ELSE [storage |-> blob, ret |-> arr, alert |-> "none", wrote |-> FALSE]

\* what prompt() returns: null when cancelled, else the text typed
Cancelled == [cancelled |-> TRUE, text |-> <<>>]

Typed(s) == [cancelled |-> FALSE, text |-> s]

\* variant: the pattern is not tested
rejectionNoPattern(nn) ==
  IF nn = <<>> THEN "empty"
  ELSE IF Len(nn) > MaxNameLen THEN "toolong"
  ELSE "none"

\* the alert that rejects the normalized name nn, "none" when it is accepted
rejection(nn) ==
  IF nn = <<>> THEN "empty"
  ELSE IF Len(nn) > MaxNameLen THEN "toolong"
  ELSE IF ~cityRegexTest(nn) THEN "format"
  ELSE "none"

\* variant: the entry that is renamed counts as a duplicate of itself
isDuplicateOfAny(i, j) == j > 0

\* j >= 0 && j !== i
isDuplicate(i, j) == j > 0 /\ j # i

\* variant: the merged entry keeps its own flag
mergeKeepTarget(current, i, j, t) ==
  splice([current EXCEPT ![j].ts = t], i)

\* current[j].pinned = current[j].pinned || current[i].pinned;
\* current[j].ts = Date.now(); current.splice(i,1)
merge(current, i, j, t) ==
  splice([current EXCEPT ![j].pinned = current[j].pinned \/ current[i].pinned,
                         ![j].ts = t], i)

\* variant: an old name that no entry has does not end the call; the new name
\* is then added as upsertCity adds it
renameCityOrAdd(oldName, answer, blob, t) ==
  LET current == getHistory(blob, t)
      i == findIndex(current, oldName)
      nn == normalizeCity(answer.text)
      j == findIndex(current, nn)
      same(a) == [storage |-> blob, ret |-> current, alert |-> a, wrote |-> FALSE]
  IN  IF answer.cancelled THEN same("none")
      ELSE IF rejection(nn) # "none" THEN same(rejection(nn))
      ELSE LET changed ==
                 IF i = 0 THEN touch(current, j, nn, t)
                 ELSE IF isDuplicate(i, j)
                 THEN merge(current, i, j, t)
                 ELSE [current EXCEPT ![i].name = nn, ![i].ts = t]
               sorted == sort(changed)
           IN  [storage |-> setHistory(sorted), ret |-> sorted, alert |-> "none", wrote |-> TRUE]

\* renameCity(oldName, normalizeCity, cityRegex) with the answer given to prompt()
renameCity(oldName, answer, blob, t) ==
  LET current == getHistory(blob, t)
      i == findIndex(current, oldName)
      nn == normalizeCity(answer.text)
      j == findIndex(current, nn)
      same(a) == [storage |-> blob, ret |-> current, alert |-> a, wrote |-> FALSE]
  IN  IF i = 0 THEN same("none")
      ELSE IF answer.cancelled THEN same("none")
      ELSE IF rejection(nn) # "none" THEN same(rejection(nn))
      ELSE LET changed ==
                 IF isDuplicate(i, j)
                 THEN merge(current, i, j, t)
                 ELSE [current EXCEPT ![i].name = nn, ![i].ts = t]
               sorted == sort(changed)
           IN  [storage |-> setHistory(sorted), ret |-> sorted, alert |-> "none", wrote |-> TRUE]

(***************************************************************************)
(* The city field: the text typed into it, its value, the value it had     *)
(* before validateCityField last ran, the number of times that ran and the *)
(* message it shows.                                                       *)
(***************************************************************************)
\* the field as the text s is typed into it
Field(s) == [typed |-> s, value |-> s, before |-> s, passes |-> 0, msg |-> "none"]

\* validateCityField(): city.value = normalizeCity(city.value), and the message
validated(f) ==
  LET v == normalizeCity(f.value)
  IN  [f EXCEPT !.value = v, !.before = f.value, !.passes = f.passes + 1,
                !.msg = rejection(v)]

(***************************************************************************)
(* The submit handler.  subs holds the runs of the handler in the order    *)
(* they started, each with its city q, where it stands (pc: awaiting the   *)
(* "weather" or the "forecast" response, or "done"), the label it read     *)
(* from the button, how its two requests ended and how many times it       *)
(* called upsertCity.  An AbortController is named by the run and the      *)
(* request it was made for and by who made it: the handler ("session") or  *)
(* fetchWithTimeout ("timeout").  requests holds the fetches that have not *)
(* settled, each with the controller whose signal it was given.            *)
(***************************************************************************)
Ctrl(k, kind, role) == [sub |-> k, kind |-> kind, role |-> role]

\* inFlight.weather = null
NoCtrl == Ctrl(0, "none", "none")

\* the text of .btn-label before any submit, and while a run is under way
IdleLabel == "idle"

BusyLabel == "Consultando..."

\* nothing has been submitted
NoSubmit ==
  /\ subs = <<>>
  /\ inFlight = [weather |-> NoCtrl, forecast |-> NoCtrl]
  /\ aborted = {}
  /\ requests = {}
  /\ submitBtn = [disabled |-> FALSE, label |-> IdleLabel]
  /\ display = [result |-> [kind |-> "empty", sub |-> 0], forecast |-> [kind |-> "empty", sub |-> 0]]

\* fetchWithTimeout(url, options, ms) of run k: merged = { ...options, signal:
\* controller.signal } with its own controller
fetchWithTimeout(k, kind, options) ==
  LET controller == Ctrl(k, kind, "timeout")
      merged == [options EXCEPT !.signal = controller]
  IN  [sub |-> k, kind |-> kind, signal |-> merged.signal, state |-> "pending"]

\* controller.abort(): the fetches given its signal are rejected with an AbortError
abort(controller, reqs) ==
  {IF r.signal = controller THEN [r EXCEPT !.state = "aborted"] ELSE r : r \in reqs}

\* inFlight.weather?.abort?.()
abortIfAny(controller, reqs) == IF controller = NoCtrl THEN reqs ELSE abort(controller, reqs)

\* variant: saveHistory(q) comes before the response is looked at
afterWeatherSaveFirst(sub, outcome) ==
  IF outcome = "ok"
  THEN [sub EXCEPT !.pc = "forecast", !.weather = "ok", !.forecast = "pending",
                   !.upserts = @ + 1]
  ELSE IF outcome = "error"
  THEN [sub EXCEPT !.pc = "done", !.weather = outcome, !.upserts = @ + 1]
  ELSE [sub EXCEPT !.pc = "done", !.weather = outcome]

\* the run after its weather request ended: with a result ("ok"), with an
\* error of the backend ("error") or rejected ("rejected")
afterWeather(sub, outcome) ==
  IF outcome = "ok"
  THEN [sub EXCEPT !.pc = "forecast", !.weather = "ok", !.forecast = "pending",
                   !.upserts = @ + 1]
  ELSE [sub EXCEPT !.pc = "done", !.weather = outcome]

\* finally { submitBtn.disabled = false; label.textContent = original }
finally(sub) == [disabled |-> FALSE, label |-> sub.original]

(***************************************************************************)
(* Inputs.                                                                 *)
(***************************************************************************)
SeedLetters == <<"a", "b", "c", "d", "e", "f", "g", "h">>

\* a name of MaxNameLen + 1 characters
TooLong == [i \in 1..(MaxNameLen + 1) |-> "z"]

\* the names upsertCity is called with
UpsertArgs == {<<"A">>, <<" ", "x", ",", " ", "m", "x">>}

\* the names deleteCity, togglePin and renameCity are called with
NameArgs == {<<"A">>, <<"h">>, <<"x", ",", " ", "m", "x">>}

\* the answers given to the rename prompt
PromptAnswers ==
  {Cancelled, Typed(<<" ">>), Typed(TooLong), Typed(<<"x", "!">>),
   Typed(<<"x", ",", " ", " ", "m", "x", " ">>)}

\* A full history as the program leaves it after upserting h, g, ..., a at
\* times 1..8 and then pinning its first p entries, last one first, at
\* times 9..8+p.
Seed(p) ==
  [i \in 1..Capacity |->
     [name |-> <<SeedLetters[i]>>,
      pinned |-> i <= p,
      ts |-> IF i <= p THEN 2 * Capacity - (Capacity - p) - i + 1 ELSE Capacity - i + 1]]

SeedPinned == {Capacity - 1, Capacity}

\* the clock when the page is loaded
InitNow == 2 * Capacity

\* What Date.now() can return at the next call: the clock has not gone back
\* since it was last read, and two calls can fall in the same millisecond.
Clock == {t \in now..(now + 1) : t <= InitNow + MaxTicks}

(***************************************************************************)
(* The state machine: one step is one call of a store operation.  now is   *)
(* the last value read from the clock: upsertCity reads it always,         *)
(* togglePin and renameCity when they change the list, deleteCity and      *)
(* clearHistoryAll never.  call.t is the value of the clock at the call.   *)
(***************************************************************************)
Init ==
  /\ storage \in {NullBlob} \cup {setHistory(Seed(p)) : p \in SeedPinned}
  /\ now = InitNow
  /\ call = [op |-> "load", name |-> <<>>, answer |-> Cancelled, t |-> InitNow]
  /\ loaded = <<>>
  /\ ret = <<>>
  /\ alert = "none"
  /\ wrote = FALSE
  /\ error = "none"
  /\ city = Field(<<>>)
  /\ NoSubmit

Apply(r, c) ==
  /\ storage' = r.storage
  /\ ret' = r.ret
  /\ alert' = r.alert
  /\ wrote' = r.wrote
  /\ error' = "none"
  /\ now' = IF r.wrote THEN c.t ELSE now
  /\ call' = [c EXCEPT !.t = IF r.wrote THEN c.t ELSE now]

Upsert ==
  \E name \in UpsertArgs, t \in Clock :
    /\ loaded' = getHistory(storage, t)
    /\ Apply(upsertCity(name, storage, t),
             [op |-> "upsert", name |-> name, answer |-> Cancelled, t |-> t])
    /\ UNCHANGED pageVars

Delete ==
  \E name \in NameArgs :
    /\ loaded' = getHistory(storage, now)
    /\ Apply(deleteCity(name, storage, now),
             [op |-> "delete", name |-> name, answer |-> Cancelled, t |-> now])
    /\ UNCHANGED pageVars

Clear ==
  /\ loaded' = <<>>
  /\ Apply(clearHistoryAll,
           [op |-> "clear", name |-> <<>>, answer |-> Cancelled, t |-> now])
  /\ UNCHANGED pageVars

TogglePin ==
  \E name \in NameArgs, t \in Clock :
    /\ loaded' = getHistory(storage, t)
    /\ Apply(togglePin(name, storage, t),
             [op |-> "togglePin", name |-> name, answer |-> Cancelled, t |-> t])
    /\ UNCHANGED pageVars

Rename ==
  \E name \in NameArgs, answer \in PromptAnswers, t \in Clock :
    /\ loaded' = getHistory(storage, t)
    /\ Apply(renameCity(name, answer, storage, t),
             [op |-> "rename", name |-> name, answer |-> answer, t |-> t])
    /\ UNCHANGED pageVars

Next == Upsert \/ Delete \/ Clear \/ TogglePin \/ Rename

Spec == Init /\ [][Next]_vars

(***************************************************************************)
(* The city field alone: a text is typed into it, and the input event and  *)
(* the submit event validate it.                                           *)
(***************************************************************************)
\* a space, a comma, a lower-case letter and an upper-case letter
TypedChars == {" ", ",", "m", "X"}

\* the texts typed
TypedTexts == UNION {[1..n -> TypedChars] : n \in 0..MaxTyped}

FieldInit ==
  /\ storage = NullBlob
  /\ now = InitNow
  /\ call = [op |-> "load", name |-> <<>>, answer |-> Cancelled, t |-> InitNow]
  /\ loaded = <<>>
  /\ ret = <<>>
  /\ alert = "none"
  /\ wrote = FALSE
  /\ error = "none"
  /\ city \in {Field(s) : s \in TypedTexts}
  /\ NoSubmit

ValidateCityField ==
  /\ city.passes < MaxPasses
  /\ city' = validated(city)
  /\ UNCHANGED <<storeVars, submitVars>>

FieldNext == ValidateCityField

FieldSpec == FieldInit /\ [][FieldNext]_vars

(***************************************************************************)
(* The store over any content of localStorage and with any name.  An       *)
(* operation that reads the name of an entry that is no string raises a    *)
(* TypeError (x.name.toLowerCase is not a function) and changes nothing.   *)
(***************************************************************************)
\* findIndex(x => x.name.toLowerCase() === name.toLowerCase()) raises an error
findIndexThrows(arr, name) ==
  \E k \in 1..Len(arr) :
     /\ ~IsString(arr[k].name)
     /\ \A m \in 1..(k - 1) : toLowerCase(arr[m].name) # toLowerCase(name)

\* filter(x => x.name.toLowerCase() !== name.toLowerCase()) raises an error
filterThrows(arr) == \E k \in 1..Len(arr) : ~IsString(arr[k].name)

\* one of the two findIndex of renameCity raises an error
renameThrows(oldName, answer, arr) ==
  \/ findIndexThrows(arr, oldName)
  \/ /\ findIndex(arr, oldName) > 0
     /\ ~answer.cancelled
     /\ rejection(normalizeCity(answer.text)) = "none"
     /\ findIndexThrows(arr, normalizeCity(answer.text))

\* the call c ends with an uncaught TypeError
Raise(c) ==
  /\ error' = "TypeError"
  /\ call' = [c EXCEPT !.t = now]
  /\ ret' = <<>>
  /\ alert' = "none"
  /\ wrote' = FALSE
  /\ UNCHANGED <<storage, now>>

\* the empty name and a name
AnyNames == {<<>>, <<"a">>}

AnyAnswers == {Typed(<<"b">>)}

\* elements of a stored array
Str(s) == [type |-> "string", s |-> s]

NumberElement == [type |-> "number"]

Obj(name, pinned, ts) == [type |-> "object", name |-> name, pinned |-> pinned, ts |-> ts]

NameOnly(name) == [type |-> "object", name |-> name]

Elements ==
  {Str(<<"b">>), Str(<<"a">>), Str(<<>>), NumberElement,
   Obj(<<"a">>, TRUE, InitNow - 1), NameOnly(<<" ", "c">>)}

Arrays == UNION {[1..n -> Elements] : n \in 0..MaxItems}

\* what can be found under LS_KEY when the page is loaded
Blobs ==
  {NullBlob, [kind |-> "unparseable"], [kind |-> "other"]}
    \cup {[kind |-> "array", items |-> a] : a \in Arrays}

\* renderHistory() when the page is loaded: getHistory()
Load ==
  \E t \in Clock :
    /\ loaded' = getHistory(storage, t)
    /\ ret' = getHistory(storage, t)
    /\ call' = [op |-> "load", name |-> <<>>, answer |-> Cancelled, t |-> t]
    /\ now' = t
    /\ alert' = "none"
    /\ wrote' = FALSE
    /\ error' = "none"
    /\ UNCHANGED <<storage, pageVars>>

AnyUpsert ==
  \E name \in AnyNames, t \in Clock :
    LET c == [op |-> "upsert", name |-> name, answer |-> Cancelled, t |-> t]
    IN  /\ loaded' = getHistory(storage, t)
        /\ IF findIndexThrows(getHistory(storage, t), trim(name))
           THEN Raise(c)
           ELSE Apply(upsertCity(name, storage, t), c)
        /\ UNCHANGED pageVars

AnyDelete ==
  \E name \in AnyNames :
    LET c == [op |-> "delete", name |-> name, answer |-> Cancelled, t |-> now]
    IN  /\ loaded' = getHistory(storage, now)
        /\ IF filterThrows(getHistory(storage, now))
           THEN Raise(c)
           ELSE Apply(deleteCity(name, storage, now), c)
        /\ UNCHANGED pageVars

AnyTogglePin ==
  \E name \in AnyNames, t \in Clock :
    LET c == [op |-> "togglePin", name |-> name, answer |-> Cancelled, t |-> t]
    IN  /\ loaded' = getHistory(storage, t)
        /\ IF findIndexThrows(getHistory(storage, t), name)
           THEN Raise(c)
           ELSE Apply(togglePin(name, storage, t), c)
        /\ UNCHANGED pageVars

AnyRename ==
  \E name \in AnyNames, answer \in AnyAnswers, t \in Clock :
    LET c == [op |-> "rename", name |-> name, answer |-> answer, t |-> t]
    IN  /\ loaded' = getHistory(storage, t)
        /\ IF renameThrows(name, answer, getHistory(storage, t))
           THEN Raise(c)
           ELSE Apply(renameCity(name, answer, storage, t), c)
        /\ UNCHANGED pageVars

AnyNext == Load \/ AnyUpsert \/ AnyDelete \/ Clear \/ AnyTogglePin \/ AnyRename

Idle ==
  /\ now = InitNow
  /\ call = [op |-> "none", name |-> <<>>, answer |-> Cancelled, t |-> InitNow]
  /\ loaded = <<>>
  /\ ret = <<>>
  /\ alert = "none"
  /\ wrote = FALSE
  /\ error = "none"
  /\ city = Field(<<>>)
  /\ NoSubmit

\* the page is loaded over any content of localStorage
LoadInit == storage \in Blobs /\ Idle

LoadSpec == LoadInit /\ [][AnyNext]_vars

\* the page is loaded over an empty localStorage
AnyInit == storage = NullBlob /\ Idle

AnySpec == AnyInit /\ [][AnyNext]_vars

(***************************************************************************)
(* The form: submits by the button, the Enter key or a chip of the         *)
(* history, and the responses of the backend, which arrive in any order.   *)
(***************************************************************************)
\* the texts in the city field when the form is submitted
SubmitTexts == {<<>>, <<"A">>, <<" ", "b">>}

\* the fetch of run k for kind that has not settled
Live(k, kind) == {r \in requests : r.sub = k /\ r.kind = kind}

\* the submit handler up to its first await
Submit ==
  \E text \in SubmitTexts :
    LET k == Len(subs) + 1
        f == validated(Field(text))
        q == trim(f.value)
        weatherController == Ctrl(k, "weather", "session")
    IN  /\ k <= MaxSubs
        /\ city' = f
        /\ IF f.msg # "none"
           THEN UNCHANGED submitVars
           ELSE /\ submitBtn' = [disabled |-> TRUE, label |-> BusyLabel]
                /\ display' = [result |-> [kind |-> "loading", sub |-> k],
                               forecast |-> [kind |-> "loading", sub |-> k]]
                /\ aborted' = aborted \cup ({inFlight.weather} \ {NoCtrl})
                /\ inFlight' = [inFlight EXCEPT !.weather = weatherController]
                /\ requests' = abortIfAny(inFlight.weather, requests)
                                  \cup {fetchWithTimeout(k, "weather", [signal |-> weatherController])}
                /\ subs' = Append(subs, [q |-> q, pc |-> "weather", original |-> submitBtn.label,
                                         weather |-> "pending", forecast |-> "none",
                                         upserts |-> 0])
        /\ UNCHANGED storeVars

\* the handler of run k from the end of its weather request to its next await
\* or to its end
WeatherSettles(k, r, outcome, t) ==
  LET new == afterWeather(subs[k], outcome)
      forecastController == Ctrl(k, "forecast", "session")
  IN  /\ subs' = [subs EXCEPT ![k] = new]
      /\ IF new.upserts > subs[k].upserts
         THEN /\ loaded' = getHistory(storage, t)
              /\ Apply(upsertCity(subs[k].q, storage, t),
                       [op |-> "upsert", name |-> subs[k].q, answer |-> Cancelled, t |-> t])
         ELSE UNCHANGED storeVars
      /\ display' = [display EXCEPT !.result = [kind |-> IF outcome = "ok" THEN "result" ELSE "error",
                                                 sub |-> k]]
      /\ IF new.pc = "forecast"
         THEN /\ aborted' = aborted \cup ({inFlight.forecast} \ {NoCtrl})
              /\ inFlight' = [inFlight EXCEPT !.forecast = forecastController]
              /\ requests' = abortIfAny(inFlight.forecast, requests \ {r})
                                \cup {fetchWithTimeout(k, "forecast", [signal |-> forecastController])}
              /\ UNCHANGED submitBtn
         ELSE /\ requests' = requests \ {r}
              /\ submitBtn' = finally(new)
              /\ UNCHANGED <<inFlight, aborted>>
      /\ UNCHANGED city

\* resp.ok and no data.error: renderResult, saveHistory, then the forecast request
WeatherOk ==
  \E k \in 1..Len(subs), t \in Clock :
    \E r \in Live(k, "weather") :
      r.state = "pending" /\ WeatherSettles(k, r, "ok", t)

\* !resp.ok || data.error: renderError
WeatherError ==
  \E k \in 1..Len(subs) :
    \E r \in Live(k, "weather") :
      r.state = "pending" /\ WeatherSettles(k, r, "error", now)

\* the fetch is rejected (no network, or aborted): catch, renderError
WeatherRejected ==
  \E k \in 1..Len(subs) :
    \E r \in Live(k, "weather") : WeatherSettles(k, r, "rejected", now)

\* the handler of run k from the end of its forecast request to its end
ForecastSettles(k, r, outcome) ==
  /\ subs' = [subs EXCEPT ![k].pc = "done", ![k].forecast = outcome]
  /\ requests' = requests \ {r}
  /\ display' = IF outcome = "rejected"
                THEN [display EXCEPT !.result = [kind |-> "error", sub |-> k]]
                ELSE [display EXCEPT !.forecast = [kind |-> IF outcome = "ok" THEN "forecast" ELSE "error",
                                                   sub |-> k]]
  /\ submitBtn' = finally(subs[k])
  /\ UNCHANGED <<storeVars, city, inFlight, aborted>>

ForecastOk ==
  \E k \in 1..Len(subs) :
    \E r \in Live(k, "forecast") :
      r.state = "pending" /\ ForecastSettles(k, r, "ok")

ForecastError ==
  \E k \in 1..Len(subs) :
    \E r \in Live(k, "forecast") :
      r.state = "pending" /\ ForecastSettles(k, r, "error")

ForecastRejected ==
  \E k \in 1..Len(subs) :
    \E r \in Live(k, "forecast") : ForecastSettles(k, r, "rejected")

\* setTimeout(() => controller.abort(), ms) of a fetch that has not settled
TimeoutFires ==
  \E r \in requests :
    /\ r.state = "pending"
    /\ aborted' = aborted \cup {Ctrl(r.sub, r.kind, "timeout")}
    /\ requests' = abort(Ctrl(r.sub, r.kind, "timeout"), requests)
    /\ UNCHANGED <<storeVars, city, subs, inFlight, submitBtn, display>>

SubmitNext ==
  \/ Submit
  \/ WeatherOk
  \/ WeatherError
  \/ WeatherRejected
  \/ ForecastOk
  \/ ForecastError
  \/ ForecastRejected
  \/ TimeoutFires

SubmitInit == storage = NullBlob /\ Idle

SubmitSpec == SubmitInit /\ [][SubmitNext]_vars

\* the array under LS_KEY as it is stored
persisted == IF storage.kind = "array" THEN storage.items ELSE <<>>

TypeOK ==
  /\ storage.kind \in {"null", "array"}
  /\ now \in InitNow..(InitNow + MaxTicks)
  /\ alert \in {"none", "empty", "toolong", "format"}
  /\ wrote \in BOOLEAN
  /\ Len(ret) <= Capacity + 1

(***************************************************************************)
(* Vocabulary of the properties.                                           *)
(***************************************************************************)
Range(s) == {s[i] : i \in 1..Len(s)}

\* the entries of the stored array, in order
stored == [i \in 1..Len(persisted) |->
             [name |-> persisted[i].name, pinned |-> persisted[i].pinned,
              ts |-> persisted[i].ts]]

SameName(a, b) == toLowerCase(a) = toLowerCase(b)

\* indices of the entries of arr whose name is name, case-insensitively
Matches(arr, name) == {k \in 1..Len(arr) : SameName(arr[k].name, name)}

\* d ranks strictly above r in the order (pinned desc, lastTouched desc)
Outranks(d, r) ==
  \/ d.pinned /\ ~r.pinned
  \/ d.pinned = r.pinned /\ d.ts > r.ts

\* the normalized new name of the last rename, and whether it is accepted
NewName == normalizeCity(call.answer.text)

Accepted ==
  /\ ~call.answer.cancelled
  /\ NewName # <<>>
  /\ Len(NewName) <= MaxNameLen
  /\ cityRegexTest(NewName)

\* the entries of arr other than the one at index i are all in res, unchanged
OthersKept(arr, i, res) == \A k \in 1..Len(arr) : k # i => arr[k] \in Range(res)

(***************************************************************************)
(* C1: no two entries of the persisted history list have names that are    *)
(* equal when compared case-insensitively.                                 *)
(***************************************************************************)
C1_CaseInsensitiveUnique ==
  \A i, j \in 1..Len(persisted) :
     i # j => ~SameName(persisted[i].name, persisted[j].name)

\* an upsert has found an entry stored under another casing, next to others
C1_Witness ==
  /\ call.op = "upsert"
  /\ Len(loaded) >= 2
  /\ \E k \in Matches(loaded, trim(call.name)) : loaded[k].name # trim(call.name)

(***************************************************************************)
(* C2: after every mutating operation the persisted list is sorted by      *)
(* pinned descending and then by lastTouched descending.                   *)
(***************************************************************************)
C2_Sorted ==
  call.op \in {"upsert", "delete", "clear", "togglePin", "rename"} =>
    \A i \in 1..(Len(persisted) - 1) :
       LET a == persisted[i]
           b == persisted[i + 1]
       IN  \/ a.pinned /\ ~b.pinned
           \/ a.pinned = b.pinned /\ a.ts >= b.ts

\* an entry in the middle of a mixed list was unpinned and has moved
C2_Witness ==
  /\ call.op = "togglePin"
  /\ Len(persisted) >= 3
  /\ \E i, j \in 1..Len(persisted) : persisted[i].pinned /\ ~persisted[j].pinned
  /\ \E i \in Matches(loaded, call.name) :
        /\ loaded[i].pinned
        /\ i < Len(loaded)
        /\ loaded[i + 1].pinned
        /\ ~SameName(stored[i].name, call.name)

\* the entries present in the last upsert before the truncation
C3_Before ==
  LET m == Matches(loaded, trim(call.name))
      fresh == [name |-> trim(call.name), pinned |-> FALSE, ts |-> call.t]
  IN  IF m = {}
      THEN Range(loaded) \cup {fresh}
      ELSE {IF k \in m THEN [loaded[k] EXCEPT !.name = trim(call.name), !.ts = call.t]
                       ELSE loaded[k] : k \in 1..Len(loaded)}

(***************************************************************************)
(* C3: the history list never holds more than 8 entries, and when an       *)
(* upsert makes more than 8 names present the resulting length is exactly  *)
(* 8 and the retained entries are the 8 highest-ranked by (pinned          *)
(* descending, lastTouched descending) of those present before truncation. *)
(***************************************************************************)
C3_Capacity ==
  /\ Len(persisted) <= Capacity
  /\ call.op = "upsert" /\ Cardinality(C3_Before) > Capacity =>
       /\ Len(stored) = Capacity
       /\ ret = stored
       /\ Range(stored) \subseteq C3_Before
       /\ \A r \in Range(stored), d \in C3_Before \ Range(stored) : ~Outranks(d, r)

\* a ninth name was upserted: it was retained and an older unpinned entry was dropped
C3_Witness ==
  /\ call.op = "upsert"
  /\ Len(loaded) = Capacity
  /\ Matches(loaded, trim(call.name)) = {}
  /\ Len(stored) = Capacity
  /\ \E k \in 1..Len(stored) : stored[k].name = trim(call.name)
  /\ \E k \in 1..Len(loaded) : ~loaded[k].pinned /\ loaded[k] \notin Range(stored)

(***************************************************************************)
(* C4: a rename whose normalized new name is already the name of another   *)
(* entry merges the two: one entry with that name is left, pinned if       *)
(* either was, touched at the time of the rename; the source is gone and   *)
(* the list is one entry shorter.                                          *)
(***************************************************************************)
C4_Merge ==
  call.op = "rename" /\ Accepted =>
    \A i \in Matches(loaded, call.name), j \in Matches(loaded, NewName) :
       i # j =>
         /\ Cardinality(Matches(ret, NewName)) = 1
         /\ \A k \in Matches(ret, NewName) :
               /\ ret[k].pinned = (loaded[j].pinned \/ loaded[i].pinned)
               /\ ret[k].ts = call.t
         /\ Matches(ret, loaded[i].name) = {}
         /\ Len(ret) = Len(loaded) - 1
         /\ stored = ret

\* a pinned entry was renamed to the name of an unpinned one
C4_Witness ==
  /\ call.op = "rename"
  /\ Accepted
  /\ \E i \in Matches(loaded, call.name), j \in Matches(loaded, NewName) :
        i # j /\ loaded[i].pinned /\ ~loaded[j].pinned

(***************************************************************************)
(* C5: a rename whose prompt is cancelled or whose new name is empty after *)
(* normalization, longer than 80 characters or not matched by the pattern  *)
(* leaves the persisted list exactly as it was.                            *)
(***************************************************************************)
C5_RejectedRenameKeepsState ==
  call.op = "rename" /\ ~Accepted =>
    /\ ~wrote
    /\ stored = loaded
    /\ ret = loaded

\* a name that the pattern does not match was given for an existing entry
C5_Witness ==
  /\ call.op = "rename"
  /\ Matches(loaded, call.name) # {}
  /\ ~call.answer.cancelled
  /\ NewName # <<>>
  /\ Len(NewName) <= MaxNameLen
  /\ ~cityRegexTest(NewName)
  /\ alert = "format"
  /\ Len(loaded) >= 2

(***************************************************************************)
(* C6: an upsert of a name that an entry already has, case-insensitively,  *)
(* keeps the length of the list, gives that entry the new casing and the   *)
(* time of the call, keeps its pinned flag and keeps every other entry.    *)
(***************************************************************************)
C6_UpsertFound ==
  call.op = "upsert" =>
    \A i \in Matches(loaded, trim(call.name)) :
       /\ Len(ret) = Len(loaded)
       /\ [name |-> trim(call.name), pinned |-> loaded[i].pinned, ts |-> call.t]
            \in Range(ret)
       /\ OthersKept(loaded, i, ret)
       /\ stored = ret

\* a pinned entry stored under another casing was upserted, next to others
C6_Witness ==
  /\ call.op = "upsert"
  /\ Len(loaded) >= 2
  /\ \E i \in Matches(loaded, trim(call.name)) :
        loaded[i].pinned /\ loaded[i].name # trim(call.name)

\* the entry that the last upsert makes for a new name, and the loaded
\* entries that rank above it
C7_Fresh == [name |-> trim(call.name), pinned |-> FALSE, ts |-> call.t]

C7_Above == {k \in 1..Len(loaded) : Outranks(loaded[k], C7_Fresh)}

(***************************************************************************)
(* C7: an upsert of a name that no entry has inserts an entry with that    *)
(* name, pinned = false and the time of the call.  The list returned and   *)
(* persisted contains it unless 8 entries rank above it, as when 8 entries *)
(* are pinned: then it is dropped and the list is left as it was.          *)
(***************************************************************************)
C7_UpsertNew ==
  call.op = "upsert" /\ Matches(loaded, trim(call.name)) = {} =>
    /\ stored = ret
    /\ IF Cardinality(C7_Above) < Capacity
       THEN /\ C7_Fresh \in Range(ret)
            /\ Len(ret) = Min(Len(loaded) + 1, Capacity)
       ELSE ret = loaded

\* C7 as it was stated: the list returned and persisted by an upsert of a
\* new name always contains the new entry
C7_AlwaysContains ==
  call.op = "upsert" /\ Matches(loaded, trim(call.name)) = {} =>
    /\ C7_Fresh \in Range(ret)
    /\ C7_Fresh \in Range(stored)

\* a new name was upserted into a list with pinned entries and stands right behind them
C7_Witness ==
  /\ call.op = "upsert"
  /\ Matches(loaded, trim(call.name)) = {}
  /\ C7_Above # {}
  /\ Cardinality(C7_Above) < Capacity
  /\ ret[Cardinality(C7_Above) + 1] = C7_Fresh

\* the entry at index i of the loaded list as the last togglePin leaves it
C8_Flipped(i) == [loaded[i] EXCEPT !.pinned = ~loaded[i].pinned, !.ts = call.t]

C8_Frame(i) ==
  /\ Len(ret) = Len(loaded)
  /\ C8_Flipped(i) \in Range(ret)
  /\ OthersKept(loaded, i, ret)
  /\ stored = ret

(***************************************************************************)
(* C8: togglePin of a name that an entry has flips that entry's pinned     *)
(* flag and sets its lastTouched to the time of the call, keeps every      *)
(* other entry and the length, and re-sorts the list: a freshly pinned     *)
(* entry precedes every other pinned entry that was touched earlier than   *)
(* the call.                                                               *)
(***************************************************************************)
C8_TogglePin ==
  call.op = "togglePin" =>
    \A i \in Matches(loaded, call.name) :
       /\ C8_Frame(i)
       /\ ~loaded[i].pinned =>
            \A p, q \in 1..Len(ret) :
               /\ ret[p] = C8_Flipped(i)
               /\ ret[q].pinned
               /\ ret[q].ts < call.t
               => p < q

\* C8 as it was stated: a freshly pinned entry precedes every other pinned entry
C8_FreshlyPinnedFirst ==
  call.op = "togglePin" =>
    \A i \in Matches(loaded, call.name) :
       /\ C8_Frame(i)
       /\ ~loaded[i].pinned => ret[1] = C8_Flipped(i)

\* an unpinned entry behind pinned ones was pinned and now stands first
C8_Witness ==
  /\ call.op = "togglePin"
  /\ \E i \in Matches(loaded, call.name) :
        /\ ~loaded[i].pinned
        /\ i > 1
        /\ loaded[1].pinned
        /\ ret[1] = C8_Flipped(i)

(***************************************************************************)
(* C9: delete removes the entry whose name equals the given name           *)
(* case-insensitively, at most one, and keeps every other entry with its   *)
(* fields and in the same relative order; the result is persisted and      *)
(* returned.                                                               *)
(***************************************************************************)
C9_Delete ==
  call.op = "delete" =>
    /\ Cardinality(Matches(loaded, call.name)) <= 1
    /\ Matches(ret, call.name) = {}
    /\ Len(ret) = Len(loaded) - Cardinality(Matches(loaded, call.name))
    /\ \A k \in 1..Len(ret) :
          ret[k] = IF \E i \in Matches(loaded, call.name) : i <= k
                   THEN loaded[k + 1]
                   ELSE loaded[k]
    /\ stored = ret

\* an entry stored under another casing was deleted from between two others
C9_Witness ==
  /\ call.op = "delete"
  /\ \E i \in Matches(loaded, call.name) :
        /\ loaded[i].name # call.name
        /\ 1 < i
        /\ i < Len(loaded)
  /\ Len(ret) >= 2

(***************************************************************************)
(* C10: a rename whose normalized new name no other entry has, also when   *)
(* it differs from the entry's own name in letter case only, renames the   *)
(* entry in place: same length, the name becomes the normalized new name,  *)
(* lastTouched the time of the call, pinned is kept and every other entry  *)
(* is unchanged.                                                           *)
(***************************************************************************)
C10_RenameInPlace ==
  call.op = "rename" /\ Accepted =>
    \A i \in Matches(loaded, call.name) :
       Matches(loaded, NewName) \subseteq {i} =>
         /\ Len(ret) = Len(loaded)
         /\ [name |-> NewName, pinned |-> loaded[i].pinned, ts |-> call.t] \in Range(ret)
         /\ OthersKept(loaded, i, ret)
         /\ stored = ret

\* an entry was given its own name in another casing
C10_Witness ==
  /\ call.op = "rename"
  /\ Accepted
  /\ \E i \in Matches(loaded, call.name) :
        /\ Matches(loaded, NewName) = {i}
        /\ loaded[i].name # NewName
        /\ Len(loaded) >= 2

(***************************************************************************)
(* C11: delete, togglePin and rename called with a name that no entry has, *)
(* case-insensitively, raise no error and leave the history list as it     *)
(* was: the list returned and the list stored are the list loaded.         *)
(***************************************************************************)
C11_NotFoundNoOp ==
  call.op \in {"delete", "togglePin", "rename"} /\ Matches(loaded, call.name) = {} =>
    /\ ret = loaded
    /\ stored = loaded
    /\ alert = "none"

\* a name that no entry of a list of several has was to be renamed to a name
\* that would have been accepted
C11_Witness ==
  /\ call.op = "rename"
  /\ Accepted
  /\ Matches(loaded, call.name) = {}
  /\ Len(loaded) >= 2

(***************************************************************************)
(* C17: no call of upsert removes a pinned entry: every entry that is      *)
(* pinned when upsert is called is still in the list upsert returns and    *)
(* stores, and still pinned.                                               *)
(***************************************************************************)
C17_UpsertKeepsPinned ==
  call.op = "upsert" =>
    \A k \in 1..Len(loaded) :
       loaded[k].pinned =>
         /\ \E m \in Matches(ret, loaded[k].name) : ret[m].pinned
         /\ \E m \in Matches(stored, loaded[k].name) : stored[m].pinned

\* a new name was added to a full list with pinned entries, and an entry
\* had to go
C17_Witness ==
  /\ call.op = "upsert"
  /\ Matches(loaded, trim(call.name)) = {}
  /\ Len(loaded) = Capacity
  /\ \E k \in 1..Len(loaded) : loaded[k].pinned
  /\ Matches(ret, trim(call.name)) # {}

(***************************************************************************)
(* C16: normalize is idempotent: normalizing a text that is already        *)
(* normalized gives the same text, normalize(normalize(s)) = normalize(s). *)
(***************************************************************************)
C16_NormalizeIdempotent ==
  city.passes >= 2 => city.value = city.before

\* a text with spaces to drop and a country code to put in upper case was
\* normalized twice
C16_Witness ==
  /\ city.passes = 2
  /\ Len(city.value) < Len(city.typed)
  /\ CountrySuffixAt(collapseSpaces(trim(city.typed))) # {}
  /\ city.value[Len(city.value)] # city.typed[Len(city.typed)]

(***************************************************************************)
(* C14: whatever is stored under the key (nothing, a text that does not    *)
(* parse, a value that is no array, an array with malformed or mixed       *)
(* elements), load raises no error, returns the empty list when the        *)
(* content is missing or malformed, and returns only entries with a        *)
(* non-empty string name, a boolean pinned and a finite lastTouched, so    *)
(* that no later store operation raises an error either.                   *)
(***************************************************************************)
C14_WellFormed(e) ==
  /\ IsString(e.name)
  /\ e.name # <<>>
  /\ e.pinned \in BOOLEAN
  /\ e.ts \in Int

C14_LoadTolerant ==
  /\ error = "none"
  /\ call.op = "load" =>
        /\ \A k \in 1..Len(ret) : C14_WellFormed(ret[k])
        /\ storage.kind # "array" => ret = <<>>

(***************************************************************************)
(* C15: loading a legacy content, an array of n name strings, returns n    *)
(* entries with the same names in the same order, all unpinned, with       *)
(* strictly descending lastTouched, and leaves the stored content as it    *)
(* is.                                                                     *)
(***************************************************************************)
C15_Legacy(blob) ==
  /\ blob.kind = "array"
  /\ \A i \in 1..Len(blob.items) : blob.items[i].type = "string"

C15_LegacyUpgrade ==
  [][call'.op = "load" /\ C15_Legacy(storage) =>
       /\ storage' = storage
       /\ Len(ret') = Len(storage.items)
       /\ \A i \in 1..Len(ret') :
             /\ ret'[i].name = storage.items[i].s
             /\ ~ret'[i].pinned
             /\ i < Len(ret') => ret'[i].ts > ret'[i + 1].ts]_vars

\* a legacy content of several names was loaded
C15_Witness ==
  /\ call.op = "load"
  /\ C15_Legacy(storage)
  /\ Len(ret) >= 2
  /\ Len(ret) = Len(storage.items)

(***************************************************************************)
(* C20: the list a store operation returns is the list the next load       *)
(* returns, with the same names and pinned flags in the same order,        *)
(* whatever string the operation was called with.                          *)
(***************************************************************************)
C20_Shown(arr) == [i \in 1..Len(arr) |-> [name |-> arr[i].name, pinned |-> arr[i].pinned]]

C20_ReturnedIsStored ==
  call.op \in {"upsert", "delete", "clear", "togglePin", "rename"} /\ error = "none" =>
    C20_Shown(ret) = C20_Shown(getHistory(storage, now))

(***************************************************************************)
(* C12: a new submission cancels the request of the same kind that is      *)
(* still in flight, so that at no time more than one weather request and   *)
(* more than one forecast request are live, also when the submission comes *)
(* from a chip of the history while another is under way.                  *)
(***************************************************************************)
C12_LiveRequests(kind) == {r \in requests : r.kind = kind /\ r.state = "pending"}

C12_OneLivePerKind ==
  \A kind \in {"weather", "forecast"} : Cardinality(C12_LiveRequests(kind)) <= 1

(***************************************************************************)
(* C13: a submission calls upsert exactly once if its weather request      *)
(* succeeds and never if it fails, is aborted or times out; the call comes *)
(* before the forecast request is issued; and whatever becomes of the      *)
(* forecast request, the upserted entry stays in the history.              *)
(***************************************************************************)
C13_UpsertOncePerSuccess ==
  \A k \in 1..Len(subs) :
     /\ subs[k].upserts = IF subs[k].weather = "ok" THEN 1 ELSE 0
     /\ Live(k, "forecast") # {} \/ subs[k].forecast # "none" => subs[k].upserts = 1
     /\ subs[k].weather = "ok" => Matches(stored, subs[k].q) # {}

\* a run whose forecast request was rejected has ended, and so has a run
\* whose weather request failed
C13_Witness ==
  \E k, m \in 1..Len(subs) :
     /\ subs[k].pc = "done"
     /\ subs[k].forecast = "rejected"
     /\ subs[m].pc = "done"
     /\ subs[m].weather \in {"error", "rejected"}

(***************************************************************************)
(* C18: the submit button is disabled and labelled 'Consultando...' as     *)
(* long as a submission is under way, and once every submission has ended  *)
(* it is enabled and has the label it had when idle, also when             *)
(* submissions overlap.                                                    *)
(***************************************************************************)
C18_ButtonTracksSubmissions ==
  /\ (\E k \in 1..Len(subs) : subs[k].pc # "done") =>
        submitBtn = [disabled |-> TRUE, label |-> BusyLabel]
  /\ (subs # <<>> /\ \A k \in 1..Len(subs) : subs[k].pc = "done") =>
        submitBtn = [disabled |-> FALSE, label |-> IdleLabel]

(***************************************************************************)
(* C19: once a newer submission has started, the response to an older one  *)
(* changes neither the displayed result nor the history; and when every    *)
(* submission has ended, the weather result on display and the entry of    *)
(* the history touched last are those of the submission started last       *)
(* among those whose weather request succeeded.                            *)
(***************************************************************************)
C19_Succeeded == {k \in 1..Len(subs) : subs[k].weather = "ok"}

C19_Last == CHOOSE m \in C19_Succeeded : \A k \in C19_Succeeded : k <= m

C19_Final ==
  (\A k \in 1..Len(subs) : subs[k].pc = "done") /\ C19_Succeeded # {} =>
     /\ display.result.kind = "result" => display.result.sub = C19_Last
     /\ SameName(trim(call.name), subs[C19_Last].q)

C19_LatestWins ==
  /\ [][\A k \in 1..Len(subs) :
          k < Len(subs) /\ subs'[k] # subs[k] =>
            display'.result = display.result /\ storage' = storage]_vars
  /\ []C19_Final

====
